---- MODULE Spec2Model ----
(***************************************************************************)
(* Model of app.py, the Streamlit surgical dashboard: the login gate       *)
(* (check_password), the cached connection (init_connection), the cached   *)
(* loader with its cleaning rules (load_data) and the dashboard body       *)
(* (dimension filters, name search, count per insurance provider).         *)
(*                                                                         *)
(* A text value is a tuple of one-character strings, so that upper-casing, *)
(* trimming and matching are computed character by character.  One step of *)
(* the model is one user interaction: the widget callback, if any, and the *)
(* top-to-bottom script run it triggers.                                   *)
(***************************************************************************)
EXTENDS Integers, Sequences, FiniteSets, TLC

VARIABLES
    table,            \* rows of dbo.FICHA (the external database)
    secrets,          \* keys present in st.secrets
    dbUp,             \* whether the database answers connect and query calls
    logged_in,        \* st.session_state['logged_in']
    user_input,       \* text of the "Usuario" input at the last login run
    pass_input,       \* text of the "Senha" input at the last login run
    connCache,        \* memo of init_connection (st.cache_resource)
    connectCalls,     \* number of pyodbc.connect calls made so far
    dataCache,        \* memo of load_data (st.cache_data), keyed by (start, end)
    logins,           \* number of successful logins so far
    event,            \* the script run that produced this state, or "env"
    screen,           \* what the last script run ended on
    data_inicial,     \* date range of the last dashboard run
    data_final,
    queries,          \* pd.read_sql calls issued by the last script run
    errors,           \* st.error / st.warning messages shown by the last run
    df,               \* what load_data returned in the last run
    sel_hospitais,    \* the three multiselect values of the last run
    sel_convenios,
    sel_anestesistas,
    nome_busca,       \* the name search text of the last run
    df_filtered,      \* the detail table of the last run
    df_busca,         \* the name search table of the last run
    df_conv           \* the per-provider count table of the last run

vars == <<table, secrets, dbUp, logged_in, user_input, pass_input, connCache,
          connectCalls, dataCache, logins, event, screen, data_inicial,
          data_final, queries, errors, df, sel_hospitais, sel_convenios,
          sel_anestesistas, nome_busca, df_filtered, df_busca, df_conv>>

-----------------------------------------------------------------------------
(* Bounds of the model *)

MaxDate == 2          \* calendar dates are 1..MaxDate
MaxLogins == 2        \* successful logins explored
MaxConnectCalls == 3  \* connect calls explored
MaxPad == 1           \* blanks added on each side of a raw text value
MaxCleanRows == 1     \* rows of a table that exercises the cleaning rules
MaxRows == 2          \* rows of a table that exercises filters and counts

(* Program constants *)

ttl == 600            \* @st.cache_data(ttl=600), seconds
SleepSecs == 1        \* time.sleep(1) after a successful login
TopN == 10            \* .head(10)

Dates == 1..MaxDate
DefaultStart == 1           \* date(2025, 1, 1), the first date of the model
DefaultEnd == MaxDate       \* datetime.now(), the last date of the model

Min(a, b) == IF a < b THEN a ELSE b

-----------------------------------------------------------------------------
(* Text values *)

Null == <<"<NULL>">>        \* SQL NULL / Python None in a text column

LowerCase == <<"a", "b", "e", "l", "n", "o", "u", "x">>
UpperCase == <<"A", "B", "E", "L", "N", "O", "U", "X">>

\* Characters in code-point order, for sorted() and groupby's key order.
Alphabet == <<" ", "(", ".", "1", "2",
              "A", "B", "D", "E", "F", "I", "L", "M", "N", "O", "R", "U", "X",
              "a", "b", "e", "l", "n", "o", "u", "x", "A~">>

CharCode(c) == CHOOSE i \in 1..Len(Alphabet) : Alphabet[i] = c

Str_NAN == <<"N", "A", "N">>
Str_NONE == <<"N", "O", "N", "E">>
Str_NULL == <<"N", "U", "L", "L">>
\* "A~" stands for the one letter A with tilde.
NAO_INFORMADO == <<"N", "A~", "O", " ", "I", "N", "F", "O", "R", "M", "A", "D", "O">>

\* str(None) == 'None'; a str stays what it is.
astype_str(v) == IF v = Null THEN <<"N", "o", "n", "e">> ELSE v

upper_char(c) ==
    IF \E i \in 1..Len(LowerCase) : LowerCase[i] = c
    THEN UpperCase[CHOOSE i \in 1..Len(LowerCase) : LowerCase[i] = c]
    ELSE c

str_upper(s) == [i \in 1..Len(s) |-> upper_char(s[i])]

RECURSIVE lstrip(_)
lstrip(s) == IF s # <<>> /\ Head(s) = " " THEN lstrip(Tail(s)) ELSE s

RECURSIVE rstrip(_)
rstrip(s) ==
    IF s # <<>> /\ s[Len(s)] = " " THEN rstrip(SubSeq(s, 1, Len(s) - 1)) ELSE s

str_strip(s) == rstrip(lstrip(s))

\* Variant of replace_missing whose list lacks the empty string.
replace_missing_no_empty(s) == IF s \in {Str_NAN, Str_NONE, Str_NULL} THEN NAO_INFORMADO ELSE s

\* .replace(['NAN', 'NONE', 'NULL', ''], <sentinel>): whole-value match.
replace_missing(s) ==
    IF s \in {Str_NAN, Str_NONE, Str_NULL, <<>>} THEN NAO_INFORMADO ELSE s

\* df[col].astype(str).str.upper().str.strip(), then the replace.
normalize_text(v) == replace_missing(str_strip(str_upper(astype_str(v))))

-----------------------------------------------------------------------------
(* Numeric values: a cell is [t, n, s] with t one of "num" (the number n),  *)
(* "str" (the text s), "null" (SQL NULL) and, after to_numeric, "nan".      *)

NumCell(n) == [t |-> "num", n |-> n, s |-> <<>>]
StrCell(s) == [t |-> "str", n |-> 0, s |-> s]
NullCell == [t |-> "null", n |-> 0, s |-> <<>>]
NaNCell == [t |-> "nan", n |-> 0, s |-> <<>>]

IsDigit(c) == c \in {"1", "2"}
DigitValue(c) == IF c = "1" THEN 1 ELSE 2

RECURSIVE ParseDigits(_, _)
ParseDigits(s, acc) ==
    IF s = <<>> THEN acc ELSE ParseDigits(Tail(s), 10 * acc + DigitValue(Head(s)))

AllDigits(s) == s # <<>> /\ \A i \in 1..Len(s) : IsDigit(s[i])

\* pd.to_numeric(..., errors='coerce'): numbers pass, numeric text is parsed
\* (optional sign, then digits), anything else becomes NaN.
to_numeric(c) ==
    CASE c.t = "num" -> c
      [] c.t = "str" ->
            IF AllDigits(c.s) THEN NumCell(ParseDigits(c.s, 0))
            ELSE IF c.s # <<>> /\ Head(c.s) = "-" /\ AllDigits(Tail(c.s))
                 THEN NumCell(0 - ParseDigits(Tail(c.s), 0))
                 ELSE NaNCell
      [] OTHER -> NaNCell

\* Variant of fillna that leaves NaN in place.
fillna_skipped(c) == c

\* .fillna(0)
fillna(c) == IF c.t = "nan" THEN NumCell(0) ELSE c

\* Lines 98-105 applied to one row.
clean_row(r) ==
    [r EXCEPT !.IDADE = fillna(to_numeric(@)),
              !.VALOR = fillna(to_numeric(@)),
              !.HOSPITAL = normalize_text(@),
              !.ANESTESISTA = normalize_text(@),
              !.NOME_CONVENIO = normalize_text(@),
              !.NOME_DO_PACIENTE = normalize_text(@),
              !.CIRURGIAO1 = normalize_text(@)]

clean(rows) == [i \in 1..Len(rows) |-> clean_row(rows[i])]

\* WHERE DATA_INTERNACAO BETWEEN ? AND ?
InRange(r, start_date, end_date) ==
    start_date <= r.DATA_INTERNACAO /\ r.DATA_INTERNACAO <= end_date

RECURSIVE BoolIndex(_, _)
\* df[mask]: the rows whose mask entry is TRUE, in order.
BoolIndex(rows, mask) ==
    IF rows = <<>> THEN <<>>
    ELSE (IF Head(mask) THEN <<Head(rows)>> ELSE <<>>)
         \o BoolIndex(Tail(rows), Tail(mask))

read_sql(start_date, end_date) ==
    BoolIndex(table, [i \in 1..Len(table) |-> InRange(table[i], start_date, end_date)])

RECURSIVE InsertByDate(_, _)
InsertByDate(sorted, r) ==
    IF sorted = <<>> THEN <<r>>
    ELSE IF Head(sorted).DATA_INTERNACAO <= r.DATA_INTERNACAO
         THEN <<Head(sorted)>> \o InsertByDate(Tail(sorted), r)
         ELSE <<r>> \o sorted

RECURSIVE sort_values_date(_)
\* df.sort_values('DATA_INTERNACAO'): ascending, equal dates keep their order.
sort_values_date(rows) ==
    IF rows = <<>> THEN <<>>
    ELSE InsertByDate(sort_values_date(SubSeq(rows, 1, Len(rows) - 1)), rows[Len(rows)])

-----------------------------------------------------------------------------
(* The database rows *)

Row(ficha, hospital, data, paciente, idade, convenio, anestesista, valor) ==
    [NUMERO_DA_FICHA |-> ficha, HOSPITAL |-> hospital, DATA_INTERNACAO |-> data,
     NOME_DO_PACIENTE |-> paciente, IDADE |-> idade, SEXO |-> <<"M">>,
     NOME_CONVENIO |-> convenio, ANESTESISTA |-> anestesista,
     CIRURGIAO1 |-> hospital, OBSERVACAO |-> Null, SITUACAO |-> <<"A">>,
     VALOR |-> valor]

SampleTable ==
    << Row(NumCell(1), <<"a">>, 1, <<"a", "n", "a">>, NumCell(2), <<"x">>,
           <<"b">>, NumCell(1)),
       Row(NumCell(2), <<"b">>, 2, <<"e", "l", "u">>, NumCell(1), <<"x">>,
           <<"l">>, NumCell(2)) >>

-----------------------------------------------------------------------------
(* Secrets *)

AdminKeys == {"admin_user", "admin_password"}
DbKeys == {"db_server", "db_name", "db_user", "db_password"}

SecretConfigs ==
    { AdminKeys \cup DbKeys,          \* everything configured
      AdminKeys,                      \* no database configuration
      AdminKeys \cup {"db_server"},   \* db_server without the other three
      DbKeys \cup {"admin_user"} }    \* no admin_password

admin_user == "admin"
admin_password == "s3cret"
LoginTexts == {admin_user, admin_password}

-----------------------------------------------------------------------------
(* Messages *)

MsgConnection == "Erro de conexao"
MsgQuery == "Erro ao ler tabela"
MsgLogin == "Usuario ou senha incorretos."
MsgDates == "A data inicial nao pode ser maior que a final."
MsgNoData == "Nenhum dado encontrado para o periodo selecionado."

-----------------------------------------------------------------------------
(* init_connection and its st.cache_resource memo *)

None == 0                    \* a handle is a positive number
NoConn == [set |-> FALSE, conn |-> None, msgs |-> {}]

\* Lines 57-80: the function under the decorator.  calls is the number of
\* pyodbc.connect calls made before; a new handle is numbered by its call.
init_connection_body(calls) ==
    IF "db_server" \notin secrets
    THEN [conn |-> None, msgs |-> {}, calls |-> calls]
    ELSE IF ~(DbKeys \subseteq secrets)
    THEN [conn |-> None, msgs |-> {MsgConnection}, calls |-> calls]
    ELSE IF ~dbUp
    THEN [conn |-> None, msgs |-> {MsgConnection}, calls |-> calls + 1]
    ELSE [conn |-> calls + 1, msgs |-> {}, calls |-> calls + 1]

\* Variant of init_connection that connects again when the database is down.
init_connection_reconnect(cc, calls) ==
    IF cc.set /\ (cc.conn = None \/ dbUp)
    THEN [conn |-> cc.conn, msgs |-> cc.msgs, calls |-> calls, cache |-> cc]
    ELSE LET r == init_connection_body(calls)
         IN  [conn |-> r.conn, msgs |-> r.msgs, calls |-> r.calls,
              cache |-> [set |-> TRUE, conn |-> r.conn, msgs |-> r.msgs]]

\* Line 56, @st.cache_resource (no ttl): the first return value, None
\* included, is kept for the life of the process and the st.error it made
\* is replayed with it.
init_connection(cc, calls) ==
    IF cc.set
    THEN [conn |-> cc.conn, msgs |-> cc.msgs, calls |-> calls, cache |-> cc]
    ELSE LET r == init_connection_body(calls)
         IN  [conn |-> r.conn, msgs |-> r.msgs, calls |-> r.calls,
              cache |-> [set |-> TRUE, conn |-> r.conn, msgs |-> r.msgs]]

-----------------------------------------------------------------------------
(* load_data and its st.cache_data memo *)

Keys == Dates \X Dates
NoEntry == [present |-> FALSE, age |-> 0, df |-> <<>>, msgs |-> {}]

\* Variant of load_data_body whose except branch reports nothing.
load_data_body_silent(start_date, end_date, cc, calls) ==
    LET ic == init_connection(cc, calls)
    IN  IF ic.conn # None /\ dbUp
        THEN [df |-> sort_values_date(clean(read_sql(start_date, end_date))),
              msgs |-> ic.msgs, queries |-> 1,
              connCache |-> ic.cache, calls |-> ic.calls]
        ELSE [df |-> <<>>, msgs |-> ic.msgs,
              queries |-> IF ic.conn # None THEN 1 ELSE 0,
              connCache |-> ic.cache, calls |-> ic.calls]

\* Lines 84-111: the function under the decorator.
load_data_body(start_date, end_date, cc, calls) ==
    LET ic == init_connection(cc, calls)
    IN  IF ic.conn # None
        THEN IF dbUp
             THEN [df |-> sort_values_date(clean(read_sql(start_date, end_date))),
                   msgs |-> ic.msgs, queries |-> 1,
                   connCache |-> ic.cache, calls |-> ic.calls]
             ELSE [df |-> <<>>, msgs |-> ic.msgs \cup {MsgQuery}, queries |-> 1,
                   connCache |-> ic.cache, calls |-> ic.calls]
        ELSE [df |-> <<>>, msgs |-> ic.msgs, queries |-> 0,
              connCache |-> ic.cache, calls |-> ic.calls]

\* Variant of CacheFresh that still serves an entry aged exactly ttl.
CacheFresh_inclusive(age) == age <= ttl

\* An entry is served while it is younger than ttl seconds; at ttl seconds
\* it has expired.
CacheFresh(age) == age < ttl

\* Line 83, @st.cache_data(ttl=600): dc is the memo at the time of the call.
load_data(start_date, end_date, dc, cc, calls) ==
    LET k == <<start_date, end_date>>
    IN  IF dc[k].present /\ CacheFresh(dc[k].age)
        THEN [df |-> dc[k].df, msgs |-> dc[k].msgs, queries |-> 0,
              connCache |-> cc, calls |-> calls, dataCache |-> dc]
        ELSE LET r == load_data_body(start_date, end_date, cc, calls)
             IN  [df |-> r.df, msgs |-> r.msgs, queries |-> r.queries,
                  connCache |-> r.connCache, calls |-> r.calls,
                  dataCache |-> [dc EXCEPT ![k] =
                      [present |-> TRUE, age |-> 0, df |-> r.df, msgs |-> r.msgs]]]

\* The memo d seconds later; ages are kept up to ttl, where an entry is stale.
Aged(dc, d) ==
    [k \in Keys |->
        IF dc[k].present THEN [dc[k] EXCEPT !.age = Min(@ + d, ttl)] ELSE dc[k]]

-----------------------------------------------------------------------------
(* The dashboard body, lines 129-192 *)

Column(rows, col) == {rows[i][col] : i \in 1..Len(rows)}

\* Series.isin(values) as a mask over the rows.
isin(rows, col, values) == [i \in 1..Len(rows) |-> rows[i][col] \in values]

\* Variant of FilterDim without the "if sel" test.
FilterDim_always(rows, col, sel) == BoolIndex(rows, isin(rows, col, sel))

\* Lines 143-148: "if sel: df_filtered = df_filtered[col.isin(sel)]".
FilterDim(rows, col, sel) ==
    IF sel # {} THEN BoolIndex(rows, isin(rows, col, sel)) ELSE rows

ApplyFilters(rows, sh, sc, sa) ==
    FilterDim(FilterDim(FilterDim(rows, "HOSPITAL", sh), "NOME_CONVENIO", sc),
              "ANESTESISTA", sa)

\* Series.str.contains(pat) takes pat as a regular expression (regex=True is
\* the default).  Over the characters of Alphabet: "(" opens a group that
\* nothing closes, which re.compile rejects; "." matches any one character;
\* every other character matches itself.
RegexInvalid(pat) == \E i \in 1..Len(pat) : pat[i] = "("

RegexMatchAt(s, pat, k) ==
    \A j \in 1..Len(pat) : pat[j] = "." \/ pat[j] = s[k + j]

str_contains(s, pat) ==
    \E k \in 0..(Len(s) - Len(pat)) : RegexMatchAt(s, pat, k)

\* Line 168, for a pattern that compiles.
NameSearch(rows, busca) ==
    BoolIndex(rows, [i \in 1..Len(rows) |->
                        str_contains(rows[i].NOME_DO_PACIENTE, str_upper(busca))])

RECURSIVE LexLess(_, _)
LexLess(a, b) ==
    IF a = <<>> THEN b # <<>>
    ELSE IF b = <<>> THEN FALSE
    ELSE IF CharCode(Head(a)) < CharCode(Head(b)) THEN TRUE
    ELSE IF CharCode(Head(a)) > CharCode(Head(b)) THEN FALSE
    ELSE LexLess(Tail(a), Tail(b))

RECURSIVE SortedKeys(_)
\* The group keys in ascending order (groupby sorts its keys).
SortedKeys(S) ==
    IF S = {} THEN <<>>
    ELSE LET m == CHOOSE x \in S : \A y \in S \ {x} : LexLess(x, y)
         IN  <<m>> \o SortedKeys(S \ {m})

\* .count() of a column: the values that are not null.
CountNotNull(rows, col) ==
    Cardinality({i \in 1..Len(rows) : rows[i][col].t # "null"})

\* Line 180: groupby('NOME_CONVENIO')['NUMERO_DA_FICHA'].count().reset_index()
groupby_count(rows) ==
    LET keys == SortedKeys(Column(rows, "NOME_CONVENIO"))
    IN  [g \in 1..Len(keys) |->
            [NOME_CONVENIO |-> keys[g],
             NUMERO_DA_FICHA |->
                CountNotNull(BoolIndex(rows, isin(rows, "NOME_CONVENIO", {keys[g]})),
                             "NUMERO_DA_FICHA")]]

RECURSIVE InsertByCount(_, _)
InsertByCount(sorted, g) ==
    IF sorted = <<>> THEN <<g>>
    ELSE IF Head(sorted).NUMERO_DA_FICHA >= g.NUMERO_DA_FICHA
         THEN <<Head(sorted)>> \o InsertByCount(Tail(sorted), g)
         ELSE <<g>> \o sorted

RECURSIVE sort_values_count_desc(_)
\* sort_values('NUMERO_DA_FICHA', ascending=False); equal counts keep their order.
sort_values_count_desc(groups) ==
    IF groups = <<>> THEN <<>>
    ELSE InsertByCount(sort_values_count_desc(SubSeq(groups, 1, Len(groups) - 1)),
                       groups[Len(groups)])

head(rows, n) == SubSeq(rows, 1, Min(n, Len(rows)))

\* Lines 180-181.
top_convenios(rows) == head(sort_values_count_desc(groupby_count(rows)), TopN)

\* Lines 116-196: the script below the login gate, run with the widget values
\* given; dc is the load_data memo at the time load_data is called.
RunDashboard(start_date, end_date, sh, sc, sa, busca, dc) ==
    LET ld == load_data(start_date, end_date, dc, connCache, connectCalls)
        dateMsg == IF start_date > end_date THEN {MsgDates} ELSE {}
        filtered == ApplyFilters(ld.df, sh, sc, sa)
        crash == busca # <<>> /\ RegexInvalid(str_upper(busca))
    IN  /\ connCache' = ld.connCache
        /\ connectCalls' = ld.calls
        /\ dataCache' = ld.dataCache
        /\ data_inicial' = start_date
        /\ data_final' = end_date
        /\ queries' = ld.queries
        /\ df' = ld.df
        /\ IF ld.df # <<>>
           THEN /\ sel_hospitais' = sh
                /\ sel_convenios' = sc
                /\ sel_anestesistas' = sa
                /\ nome_busca' = busca
                /\ df_filtered' = filtered
                /\ errors' = ld.msgs \cup dateMsg
                /\ df_busca' = IF busca # <<>> /\ ~crash
                               THEN NameSearch(filtered, busca) ELSE <<>>
                /\ df_conv' = IF crash THEN <<>> ELSE top_convenios(filtered)
                /\ screen' = IF crash THEN "crash" ELSE "dashboard"
           ELSE /\ sel_hospitais' = {}
                /\ sel_convenios' = {}
                /\ sel_anestesistas' = {}
                /\ nome_busca' = <<>>
                /\ df_filtered' = <<>>
                /\ df_busca' = <<>>
                /\ df_conv' = <<>>
                /\ errors' = ld.msgs \cup dateMsg \cup {MsgNoData}
                /\ screen' = "warning"

\* A run that stops at the login gate renders no part of the dashboard.
NothingRendered ==
    /\ queries' = 0
    /\ df' = <<>>
    /\ sel_hospitais' = {}
    /\ sel_convenios' = {}
    /\ sel_anestesistas' = {}
    /\ nome_busca' = <<>>
    /\ df_filtered' = <<>>
    /\ df_busca' = <<>>
    /\ df_conv' = <<>>

-----------------------------------------------------------------------------
(* check_password, lines 13-49 *)

\* Variant of CredentialsOk with "or" in place of "and".
CredentialsOk_either(u, p) == u = admin_user \/ p = admin_password

\* Line 37.
CredentialsOk(u, p) == u = admin_user /\ p = admin_password

\* A run while logged out, the "Entrar" button not pressed: the login form is
\* drawn, check_password returns False and st.stop() ends the run.
LoginScreen(u, p) ==
    /\ ~logged_in
    /\ event' = "login_screen"
    /\ user_input' = u
    /\ pass_input' = p
    /\ screen' = "login"
    /\ errors' = {}
    /\ NothingRendered
    /\ UNCHANGED <<table, secrets, dbUp, logged_in, connCache, connectCalls,
                   dataCache, logins, data_inicial, data_final>>

\* A run while logged out with the "Entrar" button pressed.  A missing secret
\* raises KeyError; matching credentials set the flag, sleep and rerun the
\* script, which now passes the gate with the widgets at their defaults.
Entrar(u, p) ==
    /\ ~logged_in
    /\ (AdminKeys \subseteq secrets /\ CredentialsOk(u, p))
          => (logins < MaxLogins /\ connectCalls < MaxConnectCalls)
    /\ event' = "entrar"
    /\ user_input' = u
    /\ pass_input' = p
    /\ UNCHANGED <<table, secrets, dbUp>>
    /\ IF ~(AdminKeys \subseteq secrets)
       THEN /\ screen' = "crash"
            /\ errors' = {}
            /\ NothingRendered
            /\ UNCHANGED <<logged_in, connCache, connectCalls, dataCache, logins,
                           data_inicial, data_final>>
       ELSE IF CredentialsOk(u, p)
       THEN /\ logged_in' = TRUE
            /\ logins' = logins + 1
            /\ RunDashboard(DefaultStart, DefaultEnd, {}, {}, {}, <<>>,
                            Aged(dataCache, SleepSecs))
       ELSE /\ screen' = "login"
            /\ errors' = {MsgLogin}
            /\ NothingRendered
            /\ UNCHANGED <<logged_in, connCache, connectCalls, dataCache, logins,
                           data_inicial, data_final>>

\* Line 114: the logout callback clears the flag, then the script reruns and
\* stops at the login gate.
Logout ==
    /\ logged_in
    /\ logged_in' = FALSE
    /\ event' = "logout"
    /\ user_input' = ""
    /\ pass_input' = ""
    /\ screen' = "login"
    /\ errors' = {}
    /\ NothingRendered
    /\ UNCHANGED <<table, secrets, dbUp, connCache, connectCalls, dataCache,
                   logins, data_inicial, data_final>>

\* A run while logged in, with the widget values given.  The multiselects
\* offer the values present in the loaded records.
Dashboard(start_date, end_date, sh, sc, sa, busca) ==
    /\ logged_in
    /\ connectCalls < MaxConnectCalls
    /\ LET ld == load_data(start_date, end_date, dataCache, connCache, connectCalls)
       IN  /\ sh \subseteq Column(ld.df, "HOSPITAL")
           /\ sc \subseteq Column(ld.df, "NOME_CONVENIO")
           /\ sa \subseteq Column(ld.df, "ANESTESISTA")
           /\ (ld.df = <<>> => busca = <<>>)
    /\ event' = "dashboard"
    /\ RunDashboard(start_date, end_date, sh, sc, sa, busca, dataCache)
    /\ UNCHANGED <<table, secrets, dbUp, logged_in, user_input, pass_input, logins>>

-----------------------------------------------------------------------------
(* The environment *)

\* Time passes between two interactions, ttl - 1 seconds at a time: with the
\* one-second sleep of a login, entries reach the ages ttl - 1 and ttl exactly.
Tick ==
    /\ \E k \in Keys : dataCache[k].present /\ dataCache[k].age < ttl
    /\ dataCache' = Aged(dataCache, ttl - 1)
    /\ event' = "env"
    /\ UNCHANGED <<table, secrets, dbUp, logged_in, user_input, pass_input,
                   connCache, connectCalls, logins, screen, data_inicial,
                   data_final, queries, errors, df, sel_hospitais, sel_convenios,
                   sel_anestesistas, nome_busca, df_filtered, df_busca, df_conv>>

DbFail ==
    /\ dbUp
    /\ dbUp' = FALSE
    /\ event' = "env"
    /\ UNCHANGED <<table, secrets, logged_in, user_input, pass_input,
                   connCache, connectCalls, dataCache, logins, screen,
                   data_inicial, data_final, queries, errors, df, sel_hospitais,
                   sel_convenios, sel_anestesistas, nome_busca, df_filtered,
                   df_busca, df_conv>>

DbRecover ==
    /\ ~dbUp
    /\ dbUp' = TRUE
    /\ event' = "env"
    /\ UNCHANGED <<table, secrets, logged_in, user_input, pass_input,
                   connCache, connectCalls, dataCache, logins, screen,
                   data_inicial, data_final, queries, errors, df, sel_hospitais,
                   sel_convenios, sel_anestesistas, nome_busca, df_filtered,
                   df_busca, df_conv>>

-----------------------------------------------------------------------------
(* The session: login gate, cached connection and cached loader *)

\* The process has just started and the page was opened: no session flag yet
\* (check_password sets it to False), empty memos, the login form drawn.
InitWith(tables, configs) ==
    /\ table \in tables
    /\ secrets \in configs
    /\ dbUp = TRUE
    /\ logged_in = FALSE
    /\ user_input = ""
    /\ pass_input = ""
    /\ connCache = NoConn
    /\ connectCalls = 0
    /\ dataCache = [k \in Keys |-> NoEntry]
    /\ logins = 0
    /\ event = "open"
    /\ screen = "login"
    /\ data_inicial = DefaultStart
    /\ data_final = DefaultEnd
    /\ queries = 0
    /\ errors = {}
    /\ df = <<>>
    /\ sel_hospitais = {}
    /\ sel_convenios = {}
    /\ sel_anestesistas = {}
    /\ nome_busca = <<>>
    /\ df_filtered = <<>>
    /\ df_busca = <<>>
    /\ df_conv = <<>>

Init == InitWith({SampleTable}, SecretConfigs)

LoginScreenRun == \E u \in LoginTexts, p \in LoginTexts : LoginScreen(u, p)

EntrarRun == \E u \in LoginTexts, p \in LoginTexts : Entrar(u, p)

\* The user moves the start date; the filters and the search stay blank.
DateRun ==
    \E start_date \in Dates : Dashboard(start_date, DefaultEnd, {}, {}, {}, <<>>)

Next ==
    \/ LoginScreenRun
    \/ EntrarRun
    \/ Logout
    \/ DateRun
    \/ Tick
    \/ DbFail
    \/ DbRecover

Spec == Init /\ [][Next]_vars

-----------------------------------------------------------------------------
(* The cleaning rules on raw column values *)

Blanks(n) == [i \in 1..n |-> " "]
Pad(s, l, r) == Blanks(l) \o s \o Blanks(r)

MissingLiterals ==
    { <<>>, <<"n", "a", "n">>, <<"N", "a", "N">>, <<"N", "U", "L", "L">>,
      <<"n", "u", "l", "l">>, <<"N", "o", "n", "e">> }

OtherLiterals ==
    { <<"a", "b">>, <<"a", " ", "b">>, <<"n", "u", "l">>, <<"n", "a", "n", "x">> }

RawTexts ==
    {Pad(s, l, r) : s \in MissingLiterals \cup OtherLiterals,
                    l \in 0..MaxPad, r \in 0..MaxPad} \cup {Null}

NumChars == {"-", "1", "2", "x"}
NumStrings ==
    {<<>>} \cup {<<c>> : c \in NumChars} \cup {<<c, d>> : c \in NumChars, d \in NumChars}

RawNumbers ==
    {NumCell(n) : n \in -2..2} \cup {StrCell(s) : s \in NumStrings} \cup {NullCell}

CleanRows ==
    {Row(NumCell(1), t, DefaultStart, t, NumCell(1), t, t, NumCell(1)) : t \in RawTexts}
    \cup {Row(NumCell(1), <<"a">>, DefaultStart, <<"a">>, n, <<"x">>, <<"b">>, n) :
            n \in RawNumbers}

\* Tables of rows drawn from rowSet; a row's id is its position, and the
\* dates alternate so that sorting by date reorders the rows.
TablesOf(rowSet, maxLen) ==
    UNION { { [i \in 1..n |->
                [t[i] EXCEPT !.NUMERO_DA_FICHA = NumCell(i),
                             !.DATA_INTERNACAO =
                                 IF i % 2 = 1 THEN DefaultEnd ELSE DefaultStart]] :
              t \in [1..n -> rowSet] } : n \in 1..maxLen }

LoginAdmin == Entrar(admin_user, admin_password)

InitClean == InitWith(TablesOf(CleanRows, MaxCleanRows), {AdminKeys \cup DbKeys})

SpecClean == InitClean /\ [][LoginAdmin]_vars

-----------------------------------------------------------------------------
(* The dimension filters on loaded records *)

RawHospitals == {<<"a">>, <<"b">>}
RawConvenios == {<<"x">>, <<"u">>}
RawAnestesistas == {<<"l">>, <<"n">>}

FilterRows ==
    {Row(NumCell(1), h, DefaultStart, <<"a">>, NumCell(1), c, a, NumCell(1)) :
        h \in RawHospitals, c \in RawConvenios, a \in RawAnestesistas}

InitFilter == InitWith(TablesOf(FilterRows, MaxRows), {AdminKeys \cup DbKeys})

Normalized(raws) == {normalize_text(v) : v \in raws}

FilterRun ==
    \E sh \in SUBSET Normalized(RawHospitals),
       sc \in SUBSET Normalized(RawConvenios),
       sa \in SUBSET Normalized(RawAnestesistas) :
        Dashboard(DefaultStart, DefaultEnd, sh, sc, sa, <<>>)

NextFilter == LoginAdmin \/ FilterRun

SpecFilter == InitFilter /\ [][NextFilter]_vars

-----------------------------------------------------------------------------
(* The name search and the count per insurance provider *)

ReportRows ==
    {Row(f, <<"a">>, DefaultStart, n, NumCell(1), c, <<"l">>, NumCell(1)) :
        f \in {NumCell(1), NullCell},
        n \in {<<"a", "n", "a">>, <<"a", ".", "b">>, <<"b">>},
        c \in RawConvenios}

\* Here the id column keeps the value drawn, null or not.
ReportTables ==
    UNION { [1..n -> ReportRows] : n \in 1..MaxRows }

InitReport == InitWith(ReportTables, {AdminKeys \cup DbKeys})

SearchStrings ==
    { <<"a">>, <<"a", "n">>, <<"b">>, <<".">>, <<"a", ".">>, <<"(">>, <<"x">> }

SearchRun ==
    \E sc \in SUBSET Normalized(RawConvenios), busca \in SearchStrings \cup {<<>>} :
        Dashboard(DefaultStart, DefaultEnd, {}, sc, {}, busca)

NextReport == LoginAdmin \/ SearchRun

SpecReport == InitReport /\ [][NextReport]_vars

-----------------------------------------------------------------------------
(* Properties of the session, checked under Spec *)

\* The step is a script run that reached load_data.
LoadStep == event' = "dashboard" \/ (event' = "entrar" /\ logged_in')

\* The key of that call, and the memo entry for it at the time of the call
\* (a login sleeps before the rerun that calls load_data).
CallKey == <<data_inicial', data_final'>>
EntryAtCall ==
    IF event' = "entrar" THEN Aged(dataCache, SleepSecs)[CallKey] ELSE dataCache[CallKey]
ServedFromCache == EntryAtCall.present /\ EntryAtCall.age < ttl

\* C1 as stated: a call whose exact (start_date, end_date) pair was loaded
\* less than 600 seconds earlier returns the cached records and issues no
\* query; every other call issues exactly one query.
C1_OneQueryPerMiss ==
    [][LoadStep =>
         IF ServedFromCache
         THEN queries' = 0 /\ df' = EntryAtCall.df
         ELSE queries' = 1]_vars

\* C1 amended: a call whose exact pair was loaded less than 600 seconds
\* earlier returns the cached records and issues no query; every other call
\* issues exactly one query when the connection provider yields a handle and
\* no query when it yields none.
C1_OneQueryPerMissWithHandle ==
    [][LoadStep =>
         IF ServedFromCache
         THEN queries' = 0 /\ df' = EntryAtCall.df
         ELSE queries' = (IF connCache'.conn # None THEN 1 ELSE 0)]_vars

\* A run served an entry loaded 599 seconds earlier, without a query.
C1_Witness ==
    /\ event = "dashboard"
    /\ queries = 0
    /\ df # <<>>
    /\ dataCache[<<data_inicial, data_final>>].age = ttl - 1

\* What the database holds for a range, cleaned and sorted.
RowsOfRange(start_date, end_date) ==
    sort_values_date(clean(read_sql(start_date, end_date)))

\* C2: a transient connect or query failure gives the interaction in which
\* it occurs an empty result after at most one query, and is confined to it:
\* a later interaction with the same range, made while the database works,
\* queries the database and receives the rows of the range.
C2_FailureConfined ==
    [][(LoadStep /\ DbKeys \subseteq secrets) =>
         /\ (~dbUp /\ ~ServedFromCache) => (df' = <<>> /\ queries' <= 1)
         /\ (dbUp /\ EntryAtCall.present
                  /\ EntryAtCall.msgs \cap {MsgConnection, MsgQuery} # {})
            => (queries' = 1 /\ df' = RowsOfRange(data_inicial', data_final'))]_vars

\* What a run that stopped at the login gate leaves on the page.
NoRecordShown ==
    /\ queries = 0
    /\ df = <<>>
    /\ df_filtered = <<>>
    /\ df_busca = <<>>
    /\ df_conv = <<>>

\* C3: logged_in starts false; load_data and the rendering of records are
\* reached only in runs where logged_in is true; logged_in turns true only
\* in a run with the login button pressed, the user input equal to
\* admin_user and the password input equal to admin_password; the run that
\* follows the logout callback stops at the login screen and shows no record.
C3_PasswordGated ==
    /\ ~logged_in
    /\ [](~logged_in => (screen \in {"login", "crash"} /\ NoRecordShown))
    /\ [](screen \in {"dashboard", "warning"} => logged_in)
    /\ [][(~logged_in /\ logged_in') =>
            (event' = "entrar" /\ user_input' = admin_user
                               /\ pass_input' = admin_password)]_vars
    /\ [][event' = "logout" => (~logged_in' /\ screen' = "login")]_vars

\* Logged out again while the memo still holds loaded records.
C3_Witness ==
    /\ event = "logout"
    /\ ~logged_in
    /\ \E k \in Keys : dataCache[k].present /\ dataCache[k].df # <<>>

\* The last run passed the gate and called load_data.
LoadRan == event \in {"dashboard", "entrar"} /\ logged_in

\* C4: load never propagates an error.  When the connection provider yields
\* none (configuration absent, or connect failed) or the query fails, load
\* returns an empty record set, the failure is reported in the connect
\* failure and query failure cases, and the run ends on the "no data found"
\* warning, never on a crash.
C4_LoadNeverRaises ==
    LoadRan =>
        /\ screen \in {"dashboard", "warning"}
        /\ (connCache.set /\ connCache.conn = None) =>
              /\ df = <<>>
              /\ queries = 0
              /\ screen = "warning"
              /\ MsgNoData \in errors
              /\ ("db_server" \in secrets => MsgConnection \in errors)
        /\ (queries = 1 /\ ~dbUp) =>
              /\ df = <<>>
              /\ screen = "warning"
              /\ MsgNoData \in errors
              /\ MsgQuery \in errors

\* A run whose query failed ended on the warning with the error reported.
C4_Witness ==
    /\ LoadRan
    /\ queries = 1
    /\ ~dbUp
    /\ screen = "warning"
    /\ MsgQuery \in errors

\* C10: once a connection handle has been created, the memo keeps that
\* handle and no connect call is made again, whatever loads follow; a load
\* that misses the data memo gets the handle and issues its query.
C10_SingleHandle ==
    [][connCache.conn # None =>
         /\ connCache' = connCache
         /\ connectCalls' = connectCalls
         /\ (LoadStep /\ ~ServedFromCache) => queries' = 1]_vars

\* A handle exists, two date ranges were loaded and an entry has expired.
C10_Witness ==
    /\ connCache.conn # None
    /\ connectCalls = 1
    /\ Cardinality({k \in Keys : dataCache[k].present}) >= 2
    /\ \E k \in Keys : dataCache[k].present /\ dataCache[k].age = ttl
    /\ ~dbUp
    /\ queries = 1

-----------------------------------------------------------------------------
(* Properties of the dimension filters, checked under SpecFilter *)

\* A record passes when every dimension with a selection contains its value.
Keeps(r) ==
    /\ (sel_hospitais # {} => r.HOSPITAL \in sel_hospitais)
    /\ (sel_convenios # {} => r.NOME_CONVENIO \in sel_convenios)
    /\ (sel_anestesistas # {} => r.ANESTESISTA \in sel_anestesistas)

\* C5: the filtered result is exactly the loaded records whose normalized
\* value is in the selection of every dimension that has one, in the order
\* of the loaded records; with the three selections empty it is the loaded
\* record set itself.
C5_FilterExact ==
    screen = "dashboard" =>
        /\ df_filtered = SelectSeq(df, Keeps)
        /\ (sel_hospitais = {} /\ sel_convenios = {} /\ sel_anestesistas = {})
              => df_filtered = df

\* Two dimensions are selected, one left empty; a record is kept and
\* another is dropped.
C5_Witness ==
    /\ screen = "dashboard"
    /\ sel_hospitais # {}
    /\ sel_convenios # {}
    /\ sel_anestesistas = {}
    /\ df_filtered # <<>>
    /\ Len(df_filtered) < Len(df)

-----------------------------------------------------------------------------
(* Properties of the cleaning rules, checked under SpecClean *)

\* The database row a loaded record comes from (its id is its position).
Source(r) == table[r.NUMERO_DA_FICHA.n]

NumericColumns == {"IDADE", "VALOR"}
TextColumns ==
    {"HOSPITAL", "ANESTESISTA", "NOME_CONVENIO", "NOME_DO_PACIENTE", "CIRURGIAO1"}

\* A text that is no number: empty, a lone sign, a character that is neither
\* a digit nor a sign, or a sign after the first character.
Unparseable(s) ==
    \/ s = <<>>
    \/ s = <<"-">>
    \/ \E i \in 1..Len(s) : s[i] \notin {"-", "1", "2"}
    \/ \E i \in 2..Len(s) : s[i] = "-"

\* C6 as stated: the age and the value of every loaded record are numbers
\* greater than or equal to 0, never a missing-value marker, whatever the
\* source value; a source value that cannot be parsed becomes 0.
C6_NonNegative ==
    \A i \in 1..Len(df) : \A col \in NumericColumns :
        /\ df[i][col].t = "num"
        /\ df[i][col].n >= 0
        /\ (Source(df[i])[col].t = "str" /\ Unparseable(Source(df[i])[col].s))
              => df[i][col].n = 0

\* C6 amended: the age and the value of every loaded record are numbers,
\* never a missing-value marker; a null source value or one that cannot be
\* parsed becomes 0; a numeric source value is kept as it is, so a negative
\* source value stays negative.
C6_NumericNeverMissing ==
    \A i \in 1..Len(df) : \A col \in NumericColumns :
        LET src == Source(df[i])[col]
            out == df[i][col]
        IN  /\ out.t = "num"
            /\ src.t = "null" => out.n = 0
            /\ (src.t = "str" /\ Unparseable(src.s)) => out.n = 0
            /\ src.t = "num" => out.n = src.n
            /\ src = StrCell(<<"1", "2">>) => out.n = 12
            /\ src = StrCell(<<"-", "2">>) => out.n = 0 - 2

\* A loaded record whose source value is null or cannot be parsed.
C6_Witness ==
    /\ df # <<>>
    /\ \E i \in 1..Len(df) :
          /\ Source(df[i]).IDADE \in {NullCell, StrCell(<<"1", "x">>)}
          /\ df[i].IDADE = NumCell(0)

\* The source spellings of a missing text.
MissingForms ==
    {Pad(s, l, r) : s \in MissingLiterals, l \in 0..MaxPad, r \in 0..MaxPad}
    \cup {Null}

\* C8: every normalized text field of a loaded record is the sentinel when
\* the source value is null, empty, blank, or "nan", "none" or "null" in any
\* letter case with blanks around it; any other value is returned
\* upper-cased and trimmed; no normalized field is empty.
C8_SentinelTotal ==
    \A i \in 1..Len(df) : \A col \in TextColumns :
        LET src == Source(df[i])[col]
            out == df[i][col]
        IN  /\ out # <<>>
            /\ src \in MissingForms => out = NAO_INFORMADO
            /\ src \notin MissingForms =>
                  /\ out = str_strip(str_upper(src))
                  /\ out[1] # " " /\ out[Len(out)] # " "
                  /\ \A j \in 1..Len(out) :
                        \A k \in 1..Len(LowerCase) : out[j] # LowerCase[k]

\* The source value " null " was loaded as the sentinel.
C8_Witness ==
    /\ df # <<>>
    /\ \E i \in 1..Len(df) :
          /\ Source(df[i]).HOSPITAL = <<" ", "n", "u", "l", "l", " ">>
          /\ df[i].HOSPITAL = NAO_INFORMADO
          /\ df[i].CIRURGIAO1 = NAO_INFORMADO

-----------------------------------------------------------------------------
(* Properties of the report, checked under SpecReport *)

\* The records of the filtered set with insurance provider p.
RecordsOf(p) == Cardinality({i \in 1..Len(df_filtered) : df_filtered[i].NOME_CONVENIO = p})

Listed == {df_conv[g].NOME_CONVENIO : g \in 1..Len(df_conv)}

\* C7: the provider table has at most 10 rows, is sorted non-increasing by
\* count, shows for each provider the number of records of the filtered set
\* with that provider, and keeps the providers with the highest counts.
C7_TopProviders ==
    screen = "dashboard" =>
        /\ Len(df_conv) <= TopN
        /\ \A g \in 1..(Len(df_conv) - 1) :
              df_conv[g].NUMERO_DA_FICHA >= df_conv[g + 1].NUMERO_DA_FICHA
        /\ \A g \in 1..Len(df_conv) :
              df_conv[g].NUMERO_DA_FICHA = RecordsOf(df_conv[g].NOME_CONVENIO)
        /\ \A p \in Column(df_filtered, "NOME_CONVENIO") \ Listed :
              /\ Len(df_conv) = TopN
              /\ \A g \in 1..Len(df_conv) : RecordsOf(p) <= df_conv[g].NUMERO_DA_FICHA

\* s occurs in name as a run of consecutive characters.
HasLiteral(name, s) ==
    \E k \in 0..(Len(name) - Len(s)) : SubSeq(name, k + 1, k + Len(s)) = s

NameHasSearch(r) == HasLiteral(str_upper(r.NOME_DO_PACIENTE), str_upper(nome_busca))

\* C9: with a non-empty search string the search never fails and its result
\* is exactly the records of the filtered set whose patient name contains
\* the string as a literal substring, compared without regard to case,
\* punctuation included; with an empty string no result is produced.
C9_LiteralSearch ==
    /\ screen # "crash"
    /\ (screen = "dashboard" /\ nome_busca # <<>>)
          => df_busca = SelectSeq(df_filtered, NameHasSearch)
    /\ (screen = "dashboard" /\ nome_busca = <<>>) => df_busca = <<>>

====
